---- MODULE Spec2Model ----
(***************************************************************************)
(* Model of the evaluation code of the object-detection notebook:          *)
(* calculate_iou (a pure function), evaluate_model_performance (the        *)
(* loop over dataset.take(num_samples), the loop over the detector's       *)
(* output, the scan of the ground-truth boxes and the final report), and   *)
(* the labelling loops of run_detector_and_visualize and                   *)
(* process_uploaded_image.                                                 *)
(*                                                                         *)
(* Numbers.  The code works on floats.  The model keeps box ordinates as   *)
(* integers and every quotient as an exact fraction <<num, den>> in lowest *)
(* terms with den > 0; <<0, 0>> stands for a raised ZeroDivisionError.     *)
(* Python sequences are 0-based, TLA+ sequences 1-based: box[k] of the     *)
(* code is box[k + 1] here, and gt_index keeps the code's 0-based value.   *)
(* A local name that has not been assigned yet holds <<>>.                 *)
(*                                                                         *)
(* The detector is a black box: its output for an example is drawn when    *)
(* the detection loop enumerates it (each detection, and whether there is  *)
(* another one).  The loop only ever reads index i of the three parallel   *)
(* arrays, so the state keeps the triple read last.                        *)
(* score, pred_box and best_iou are recomputed from it before every use    *)
(* and are not kept; gt_index is kept, because the code never resets it.   *)
(***************************************************************************)
EXTENDS Integers, Sequences, FiniteSets, TLC

VARIABLES
    pc,                 \* position of the running call
    box1, box2,         \* arguments of the calculate_iou call under study
    iou, iou_rev,       \* calculate_iou(box1, box2) and calculate_iou(box2, box1)
    iou_threshold,      \* parameter of evaluate_model_performance
    num_samples,        \* parameter of evaluate_model_performance
    dataset_len,        \* number of examples the dataset can yield
    taken,              \* examples yielded so far by dataset.take(num_samples)
    tp_at_take,         \* true_positives when the current example was taken
                        \* (observation only: the code has no such name)
    gt_boxes, gt_labels,  \* ground truth of the current example
    i,                  \* 0-based index of the next detection to enumerate;
                        \* len(pred_scores) once the loop is exhausted
    detection,          \* <<pred_boxes[k], pred_scores[k], pred_labels[k]>> of
                        \* the detection enumerated last (k = i - 1)
    gt_index,           \* <<>> while unassigned, <<j>> once assigned
    true_positives, false_positives, false_negatives,
    precision, recall,
    label,              \* local name label of the labelling loops: <<>> while
                        \* unassigned, <<name>> once assigned
    output,             \* captions drawn / lines printed so far, each
                        \* <<class_id, label>>
    dataset,            \* examples in the order the dataset yields them, each
                        \* <<ground truth, detector output>>
    reordered,          \* the same examples yielded in another order
    report,             \* what the evaluation of dataset reports
    report_reordered    \* what the evaluation of reordered reports

vars == <<pc, box1, box2, iou, iou_rev, iou_threshold, num_samples,
          dataset_len, taken, tp_at_take, gt_boxes, gt_labels,
          i, detection, gt_index, true_positives,
          false_positives, false_negatives, precision, recall,
          label, output, dataset, reordered, report, report_reordered>>

evalVars == <<iou_threshold, num_samples, dataset_len,
              taken, tp_at_take, gt_boxes, gt_labels, i,
              detection,
              gt_index, true_positives, false_positives, false_negatives,
              precision, recall>>

iouVars == <<box1, box2, iou, iou_rev>>

labelVars == <<label, output>>

orderVars == <<dataset, reordered, report, report_reordered>>

(***************************************************************************)
(* Bounds.                                                                 *)
(***************************************************************************)
Grid == 3          \* box ordinates of the calculate_iou study range over 0..Grid
MaxImages == 2     \* largest dataset, and largest num_samples
MaxGt == 1          \* most ground-truth boxes in one example
MaxDet == 2         \* most detections returned for one example
NumClasses == 2     \* len(class_names)
MaxOut == 3         \* most detections enumerated by a labelling loop

(***************************************************************************)
(* Arithmetic of the code: max, min, true division.                        *)
(***************************************************************************)
max(a, b) == IF a >= b THEN a ELSE b

min(a, b) == IF a <= b THEN a ELSE b

Abs(a) == IF a < 0 THEN 0 - a ELSE a

RECURSIVE GCD(_, _)
GCD(a, b) == IF b = 0 THEN a ELSE GCD(b, a % b)

ZeroDivisionError == <<0, 0>>

\* Python's a / b on numbers: the exact quotient, as a fraction in lowest
\* terms with a positive denominator; b = 0 raises.
TrueDiv(a, b) ==
    IF b = 0 THEN ZeroDivisionError
    ELSE LET g == GCD(Abs(a), Abs(b))
             s == IF b < 0 THEN 0 - 1 ELSE 1
         IN  <<(s * a) \div g, (s * b) \div g>>

\* The int literal 0 and the int counters, as fractions.
Num(n) == <<n, 1>>

\* a < b and a > b on fractions with positive denominators.
Lt(a, b) == a[1] * b[2] < b[1] * a[2]

Gt(a, b) == a[1] * b[2] > b[1] * a[2]

(***************************************************************************)
(* calculate_iou                                                           *)
(***************************************************************************)
intersection_area_noclamp(b1, b2) ==
    LET y1 == max(b1[1], b2[1])
        x1 == max(b1[2], b2[2])
        y2 == min(b1[3], b2[3])
        x2 == min(b1[4], b2[4])
    IN  (y2 - y1) * (x2 - x1)

intersection_area_first(b1, b2) ==
    LET y1 == b1[1]
        x1 == max(b1[2], b2[2])
        y2 == min(b1[3], b2[3])
        x2 == min(b1[4], b2[4])
    IN  max(0, y2 - y1) * max(0, x2 - x1)

intersection_area(b1, b2) ==
    LET y1 == max(b1[1], b2[1])
        x1 == max(b1[2], b2[2])
        y2 == min(b1[3], b2[3])
        x2 == min(b1[4], b2[4])
    IN  max(0, y2 - y1) * max(0, x2 - x1)

box_area(b) == (b[3] - b[1]) * (b[4] - b[2])

union_area_nosub(b1, b2) == box_area(b1) + box_area(b2)

union_area(b1, b2) == box_area(b1) + box_area(b2) - intersection_area(b1, b2)

calculate_iou_noguard(b1, b2) ==
    TrueDiv(intersection_area(b1, b2), union_area(b1, b2))

calculate_iou_sum(b1, b2) ==
    IF union_area(b1, b2) = 0
    THEN Num(0)
    ELSE TrueDiv(intersection_area(b1, b2), box_area(b1) + box_area(b2))

calculate_iou(b1, b2) ==
    IF union_area(b1, b2) = 0
    THEN Num(0)
    ELSE TrueDiv(intersection_area(b1, b2), union_area(b1, b2))

(***************************************************************************)
(* Inputs of the calculate_iou study: every 4-tuple over the grid, valid   *)
(* or not, and the two boxes of the worked example.                        *)
(***************************************************************************)
ExampleBox1 == <<0, 0, 10, 10>>

ExampleBox2 == <<5, 5, 15, 15>>

Boxes ==
    {<<a, b, c, d>> : a \in 0..Grid, b \in 0..Grid, c \in 0..Grid, d \in 0..Grid}
        \cup {ExampleBox1, ExampleBox2}

ValidBox(b) == b[1] <= b[3] /\ b[2] <= b[4]

NonDegenerate(b) == b[1] < b[3] /\ b[2] < b[4]

ZeroArea(b) == b[1] = b[3] \/ b[2] = b[4]

(***************************************************************************)
(* The calculate_iou study: one call on a pair of boxes, in both argument  *)
(* orders.                                                                 *)
(***************************************************************************)
LabelRest == label = <<>> /\ output = <<>>

OrderRest ==
    /\ dataset = <<>> /\ reordered = <<>>
    /\ report = <<>> /\ report_reordered = <<>>

EvalRest ==
    /\ iou_threshold = <<1, 2>>
    /\ num_samples = 0
    /\ dataset_len = 0
    /\ taken = 0
    /\ tp_at_take = 0
    /\ gt_boxes = <<>> /\ gt_labels = <<>>
    /\ i = 0
    /\ detection = <<>>
    /\ gt_index = <<>>
    /\ true_positives = 0 /\ false_positives = 0 /\ false_negatives = 0
    /\ precision = <<>> /\ recall = <<>>

InitIoU ==
    /\ pc = "call"
    /\ box1 \in Boxes
    /\ box2 \in Boxes
    /\ iou = <<>>
    /\ iou_rev = <<>>
    /\ EvalRest
    /\ LabelRest
    /\ OrderRest

CallCalculateIou ==
    /\ pc = "call"
    /\ iou' = calculate_iou(box1, box2)
    /\ iou_rev' = calculate_iou(box2, box1)
    /\ pc' = "returned"
    /\ UNCHANGED <<box1, box2>>
    /\ UNCHANGED evalVars
    /\ UNCHANGED labelVars
    /\ UNCHANGED orderVars

NextIoU == CallCalculateIou

SpecIoU == InitIoU /\ [][NextIoU]_vars

(***************************************************************************)
(* Inputs of the evaluation.                                               *)
(***************************************************************************)
BoxA == <<0, 0, 2, 3>>      \* 2 high, 3 wide

BoxAt == <<0, 0, 3, 2>>     \* BoxA with y and x exchanged

BoxC == <<3, 3, 4, 4>>      \* a square away from BoxA

\* <<box, label>>
GtEntries == {<<BoxA, 1>>, <<BoxA, 2>>, <<BoxC, 1>>}

\* <<box, score, class id>>
DetEntries ==
    {<<BoxA, <<9, 10>>, 1>>, <<BoxAt, <<1, 2>>, 1>>, <<BoxAt, <<2, 5>>, 1>>}

SeqsUpTo(S, n) == UNION {[1..k -> S] : k \in 0..n}

GtSeqs == SeqsUpTo(GtEntries, MaxGt)

IouThresholds == {<<0, 1>>, <<1, 2>>, <<1, 1>>}

Column(s, k) == [n \in 1..Len(s) |-> s[n][k]]

(***************************************************************************)
(* evaluate_model_performance                                              *)
(***************************************************************************)
\* dataset.take(num_samples): how many examples the loop gets.
take_count_all(len, n) == len

take_count(len, n) == min(len, n)

\* if score < 0.5: continue
below_confidence_le(s) == ~Gt(s, <<1, 2>>)

below_confidence(s) == Lt(s, <<1, 2>>)

\* pred_box = [pred_box[1], pred_box[0], pred_box[3], pred_box[2]]
convert_box(p) == <<p[2], p[1], p[4], p[3]>>

\* The scan of gt_boxes from 0-based index j on; best is best_iou so far and
\* idx is gt_index so far.  Gives <<best_iou, gt_index>>.
RECURSIVE scan_gt(_, _, _, _, _)
scan_gt(j, best, idx, boxes, pb) ==
    IF j >= Len(boxes) THEN <<best, idx>>
    ELSE LET v == calculate_iou(boxes[j + 1], pb)
         IN  IF Gt(v, best)
             THEN scan_gt(j + 1, v, <<j>>, boxes, pb)
             ELSE scan_gt(j + 1, best, idx, boxes, pb)

RECURSIVE scan_gt_last(_, _, _, _, _)
scan_gt_last(j, best, idx, boxes, pb) ==
    IF j >= Len(boxes) THEN <<best, idx>>
    ELSE LET v == calculate_iou(boxes[j + 1], pb)
         IN  IF ~Lt(v, best) /\ Gt(v, Num(0))
             THEN scan_gt_last(j + 1, v, <<j>>, boxes, pb)
             ELSE scan_gt_last(j + 1, best, idx, boxes, pb)

best_match_last(boxes, pb, idx) == scan_gt_last(0, Num(0), idx, boxes, pb)

\* best_iou = 0, then the scan; gt_index is not reset.
best_match(boxes, pb, idx) == scan_gt(0, Num(0), idx, boxes, pb)

\* if best_iou > iou_threshold
exceeds_threshold_ge(best, thr) == ~Lt(best, thr)

exceeds_threshold(best, thr) == Gt(best, thr)

\* pred_labels[i] == gt_labels[gt_index]
label_match(pred_label, labels, idx) == pred_label = labels[idx[1] + 1]

\* false_negatives += len(gt_boxes) - true_positives
missed_boxes(boxes, tp) == Len(boxes) - tp

\* n / d if d > 0 else 0
ratio_or_zero(n, d) == IF d > 0 THEN TrueDiv(n, d) ELSE Num(0)

IouRest ==
    /\ box1 = <<>> /\ box2 = <<>> /\ iou = <<>> /\ iou_rev = <<>>

Init ==
    /\ pc = "loop"
    /\ IouRest
    /\ LabelRest
    /\ OrderRest
    /\ iou_threshold \in IouThresholds
    /\ num_samples \in 0..MaxImages
    /\ dataset_len \in 0..MaxImages
    /\ taken = 0
    /\ tp_at_take = 0
    /\ gt_boxes = <<>> /\ gt_labels = <<>>
    /\ i = 0
    /\ detection = <<>>
    /\ gt_index = <<>>
    /\ true_positives = 0 /\ false_positives = 0 /\ false_negatives = 0
    /\ precision = <<>> /\ recall = <<>>

params == <<iou_threshold, num_samples, dataset_len>>

example == <<gt_boxes, gt_labels>>

\* The outer loop yields the next example and the detector runs on it.
TakeExampleFrom(pool) ==
    /\ pc = "loop"
    /\ taken < take_count(dataset_len, num_samples)
    /\ \E gt \in pool :
          /\ gt_boxes' = Column(gt, 1)
          /\ gt_labels' = Column(gt, 2)
    /\ detection' = <<>>
    /\ taken' = taken + 1
    /\ tp_at_take' = true_positives
    /\ i' = 0
    /\ pc' = "detections"
    /\ UNCHANGED <<gt_index, true_positives, false_positives,
                   false_negatives, precision, recall>>
    /\ UNCHANGED params
    /\ UNCHANGED iouVars
    /\ UNCHANGED labelVars
    /\ UNCHANGED orderVars

TakeExample == TakeExampleFrom(GtSeqs)

\* One iteration of the detection loop that ends in continue.
SkipDetection ==
    /\ pc = "detections"
    /\ i < MaxDet
    /\ \E d \in DetEntries :
          /\ below_confidence(d[2])
          /\ detection' = d
    /\ i' = i + 1
    /\ UNCHANGED <<pc, taken, tp_at_take, gt_index, true_positives, false_positives,
                   false_negatives, precision, recall>>
    /\ UNCHANGED example
    /\ UNCHANGED params
    /\ UNCHANGED iouVars
    /\ UNCHANGED labelVars
    /\ UNCHANGED orderVars

\* One iteration of the detection loop that matches and counts.  Reading
\* gt_index while it is unassigned raises NameError, and an index that is
\* not one of gt_labels raises IndexError: the call stops there.
MatchDetection ==
    /\ pc = "detections"
    /\ i < MaxDet
    /\ \E d \in DetEntries :
          /\ ~below_confidence(d[2])
          /\ detection' = d
          /\ LET pred_box == convert_box(d[1])
                 m == best_match(gt_boxes, pred_box, gt_index)
                 best_iou == m[1]
             IN  /\ gt_index' = m[2]
                 /\ IF exceeds_threshold(best_iou, iou_threshold)
                    THEN IF m[2] = <<>> \/ (m[2] # <<>> /\ m[2][1] >= Len(gt_labels))
                         THEN /\ pc' = "fault"
                              /\ UNCHANGED <<i, true_positives, false_positives>>
                         ELSE IF label_match(d[3], gt_labels, m[2])
                              THEN /\ true_positives' = true_positives + 1
                                   /\ UNCHANGED <<pc, false_positives>>
                                   /\ i' = i + 1
                              ELSE /\ false_positives' = false_positives + 1
                                   /\ UNCHANGED <<pc, true_positives>>
                                   /\ i' = i + 1
                    ELSE /\ false_positives' = false_positives + 1
                         /\ UNCHANGED <<pc, true_positives>>
                         /\ i' = i + 1
    /\ UNCHANGED <<taken, tp_at_take, false_negatives, precision, recall>>
    /\ UNCHANGED example
    /\ UNCHANGED params
    /\ UNCHANGED iouVars
    /\ UNCHANGED labelVars
    /\ UNCHANGED orderVars

\* The detection loop is exhausted (the detector returned i detections):
\* the false negatives of the example.
EndImage ==
    /\ pc = "detections"
    /\ i <= MaxDet
    /\ false_negatives' = false_negatives + missed_boxes(gt_boxes, true_positives)
    /\ pc' = "loop"
    /\ UNCHANGED <<taken, tp_at_take, i, detection, gt_index, true_positives,
                   false_positives, precision, recall>>
    /\ UNCHANGED example
    /\ UNCHANGED params
    /\ UNCHANGED iouVars
    /\ UNCHANGED labelVars
    /\ UNCHANGED orderVars

\* The outer loop is exhausted: precision, recall and the printed report.
Report ==
    /\ pc = "loop"
    /\ taken = take_count(dataset_len, num_samples)
    /\ precision' = ratio_or_zero(true_positives, true_positives + false_positives)
    /\ recall' = ratio_or_zero(true_positives, true_positives + false_negatives)
    /\ pc' = "done"
    /\ UNCHANGED <<taken, tp_at_take, i, detection, gt_index, true_positives,
                   false_positives, false_negatives>>
    /\ UNCHANGED example
    /\ UNCHANGED params
    /\ UNCHANGED iouVars
    /\ UNCHANGED labelVars
    /\ UNCHANGED orderVars

Next ==
    \/ TakeExample
    \/ SkipDetection
    \/ MatchDetection
    \/ EndImage
    \/ Report

Spec == Init /\ [][Next]_vars

(***************************************************************************)
(* The evaluation of a single example that may carry one ground-truth box  *)
(* more, so that two boxes of one example can tie for the best IoU.        *)
(***************************************************************************)
GtSeqsOne == SeqsUpTo(GtEntries, MaxGt + 1)

InitOne ==
    /\ pc = "loop"
    /\ IouRest
    /\ LabelRest
    /\ OrderRest
    /\ iou_threshold \in IouThresholds
    /\ num_samples = 1
    /\ dataset_len = 1
    /\ taken = 0
    /\ tp_at_take = 0
    /\ gt_boxes = <<>> /\ gt_labels = <<>>
    /\ i = 0
    /\ detection = <<>>
    /\ gt_index = <<>>
    /\ true_positives = 0 /\ false_positives = 0 /\ false_negatives = 0
    /\ precision = <<>> /\ recall = <<>>

TakeOneExample == TakeExampleFrom(GtSeqsOne)

NextOne ==
    \/ TakeOneExample
    \/ SkipDetection
    \/ MatchDetection
    \/ EndImage
    \/ Report

SpecOne == InitOne /\ [][NextOne]_vars

(***************************************************************************)
(* evaluate_model_performance as a function of the examples the dataset    *)
(* yields, the detector being a function of the example: the same loops,   *)
(* run to the end.  The counters are kept in a record; ok turns FALSE when *)
(* the read of gt_index raises.                                            *)
(***************************************************************************)
RECURSIVE detection_loop(_, _, _, _, _)
detection_loop(k, dets, gt, thr, st) ==
    IF k > Len(dets) \/ ~st.ok THEN st
    ELSE LET d == dets[k]
         IN  IF below_confidence(d[2])
             THEN detection_loop(k + 1, dets, gt, thr, st)
             ELSE LET m == best_match(Column(gt, 1), convert_box(d[1]), st.idx)
                      s1 == [st EXCEPT !.idx = m[2]]
                  IN  IF exceeds_threshold(m[1], thr)
                      THEN IF m[2] = <<>> \/ (m[2] # <<>> /\ m[2][1] >= Len(gt))
                           THEN [s1 EXCEPT !.ok = FALSE]
                           ELSE IF label_match(d[3], Column(gt, 2), m[2])
                                THEN detection_loop(k + 1, dets, gt, thr,
                                                    [s1 EXCEPT !.tp = @ + 1])
                                ELSE detection_loop(k + 1, dets, gt, thr,
                                                    [s1 EXCEPT !.fp = @ + 1])
                      ELSE detection_loop(k + 1, dets, gt, thr,
                                          [s1 EXCEPT !.fp = @ + 1])

RECURSIVE example_loop(_, _, _, _)
example_loop(n, exs, thr, st) ==
    IF n > Len(exs) \/ ~st.ok THEN st
    ELSE LET s1 == detection_loop(1, exs[n][2], exs[n][1], thr, st)
         IN  IF ~s1.ok THEN s1
             ELSE example_loop(n + 1, exs, thr,
                     [s1 EXCEPT !.fn = @ + missed_boxes(Column(exs[n][1], 1), s1.tp)])

\* The five reported values, or <<>> when the call raised.
evaluate_model_performance(exs, thr, n) ==
    LET st == example_loop(1, SubSeq(exs, 1, take_count(Len(exs), n)), thr,
                           [tp |-> 0, fp |-> 0, fn |-> 0, idx |-> <<>>, ok |-> TRUE])
    IN  IF ~st.ok THEN <<>>
        ELSE <<st.tp, st.fp, st.fn,
               ratio_or_zero(st.tp, st.tp + st.fp),
               ratio_or_zero(st.tp, st.tp + st.fn)>>

\* Examples with at most one ground-truth box and one detection.
OrderExamples ==
    {<<gt, dets>> : gt \in SeqsUpTo(GtEntries, 1), dets \in SeqsUpTo(DetEntries, 1)}

Reorderings(s) ==
    {[n \in 1..Len(s) |-> s[f[n]]] :
        f \in {g \in [1..Len(s) -> 1..Len(s)] :
                  \A a, b \in 1..Len(s) : a # b => g[a] # g[b]}}

InitOrder ==
    /\ pc = "order"
    /\ IouRest
    /\ LabelRest
    /\ iou_threshold \in IouThresholds
    /\ dataset \in SeqsUpTo(OrderExamples, MaxImages)
    /\ reordered \in Reorderings(dataset)
    /\ num_samples = Len(dataset)
    /\ dataset_len = Len(dataset)
    /\ report = <<>> /\ report_reordered = <<>>
    /\ taken = 0
    /\ tp_at_take = 0
    /\ gt_boxes = <<>> /\ gt_labels = <<>>
    /\ i = 0
    /\ detection = <<>>
    /\ gt_index = <<>>
    /\ true_positives = 0 /\ false_positives = 0 /\ false_negatives = 0
    /\ precision = <<>> /\ recall = <<>>

\* The evaluation is run on the dataset in both orders.
EvaluateBothOrders ==
    /\ pc = "order"
    /\ report' = evaluate_model_performance(dataset, iou_threshold, num_samples)
    /\ report_reordered' =
          evaluate_model_performance(reordered, iou_threshold, num_samples)
    /\ pc' = "evaluated"
    /\ UNCHANGED <<dataset, reordered>>
    /\ UNCHANGED evalVars
    /\ UNCHANGED iouVars
    /\ UNCHANGED labelVars

NextOrder == EvaluateBothOrders

SpecOrder == InitOrder /\ [][NextOrder]_vars

(***************************************************************************)
(* The two labelling loops: the captions of run_detector_and_visualize and *)
(* the printed list of process_uploaded_image.  class_names comes from the *)
(* dataset's metadata; the detector's class ids are not bound by its       *)
(* length.                                                                 *)
(***************************************************************************)
VocNames == <<"aeroplane", "bicycle", "bird", "boat", "bottle">>

class_names == SubSeq(VocNames, 1, NumClasses)

ClassIds == 0..(NumClasses + 1)

Scores == {<<1, 2>>, <<9, 10>>}

\* score > 0.5
above_confidence(s) == Gt(s, <<1, 2>>)

\* if class_id < len(class_names): label = class_names[class_id]
\* (no else branch: label keeps what it held)
caption_label(class_id, old) ==
    IF class_id < Len(class_names) THEN <<class_names[class_id + 1]>>
                                   ELSE old

\* label = class_names[class_id] if class_id < len(class_names) else "UNKNOWN"
printed_label(class_id) ==
    IF class_id < Len(class_names) THEN <<class_names[class_id + 1]>>
                                   ELSE <<"UNKNOWN">>

labelRestVars == <<iou_threshold, num_samples, dataset_len,
                   taken, tp_at_take, gt_boxes, gt_labels, detection,
                   gt_index, true_positives, false_positives,
                   false_negatives, precision, recall>>

InitLabels ==
    /\ pc \in {"visualize", "print"}
    /\ IouRest
    /\ EvalRest
    /\ LabelRest
    /\ OrderRest

\* One iteration of the predicted-box loop of run_detector_and_visualize.
\* The caption reads label: an unassigned local raises.
VisualizeDetection ==
    /\ pc = "visualize"
    /\ i < MaxOut
    /\ \E score \in Scores, class_id \in ClassIds :
          IF above_confidence(score)
          THEN LET lab == caption_label(class_id, label)
               IN  /\ label' = lab
                   /\ IF lab = <<>>
                      THEN /\ pc' = "fault"
                           /\ UNCHANGED <<i, output>>
                      ELSE /\ output' = Append(output, <<class_id, lab[1]>>)
                           /\ i' = i + 1
                           /\ UNCHANGED pc
          ELSE /\ i' = i + 1
               /\ UNCHANGED <<pc, label, output>>
    /\ UNCHANGED labelRestVars
    /\ UNCHANGED orderVars
    /\ UNCHANGED iouVars

\* The loop is exhausted: plt.legend(), plt.show().
ShowFigure ==
    /\ pc = "visualize"
    /\ i <= MaxOut
    /\ pc' = "shown"
    /\ UNCHANGED <<i, label, output>>
    /\ UNCHANGED labelRestVars
    /\ UNCHANGED orderVars
    /\ UNCHANGED iouVars

\* One iteration of the printing loop of process_uploaded_image.
PrintDetection ==
    /\ pc = "print"
    /\ i < MaxOut
    /\ \E score \in Scores, class_id \in ClassIds :
          IF above_confidence(score)
          THEN /\ label' = printed_label(class_id)
               /\ output' = Append(output, <<class_id, label'[1]>>)
               /\ i' = i + 1
          ELSE /\ i' = i + 1
               /\ UNCHANGED <<label, output>>
    /\ UNCHANGED pc
    /\ UNCHANGED labelRestVars
    /\ UNCHANGED orderVars
    /\ UNCHANGED iouVars

\* The printing loop is exhausted and process_uploaded_image returns.
EndPrint ==
    /\ pc = "print"
    /\ i <= MaxOut
    /\ pc' = "printed"
    /\ UNCHANGED <<i, label, output>>
    /\ UNCHANGED labelRestVars
    /\ UNCHANGED orderVars
    /\ UNCHANGED iouVars

NextLabels ==
    \/ VisualizeDetection
    \/ ShowFigure
    \/ PrintDetection
    \/ EndPrint

SpecLabels == InitLabels /\ [][NextLabels]_vars

\* The call is one sequential thread of control: while a step of the loops is
\* possible, one is taken.
FairSpec == Spec /\ WF_vars(Next)

(***************************************************************************)
(* Properties of calculate_iou, checked under SpecIoU.                     *)
(***************************************************************************)
Returned == pc = "returned"

Zero == <<0, 1>>

One == <<1, 1>>

\* C1: for valid boxes the value returned by calculate_iou is a number v
\* with 0 <= v <= 1.
IouBounded ==
    (Returned /\ ValidBox(box1) /\ ValidBox(box2))
        => /\ iou # ZeroDivisionError
           /\ iou[2] > 0
           /\ 0 <= iou[1]
           /\ iou[1] <= iou[2]

IouBoundedWitness ==
    /\ Returned /\ ValidBox(box1) /\ ValidBox(box2)
    /\ box1 # box2
    /\ 0 < iou[1] /\ iou[1] < iou[2]

\* C2: the IoU of a non-degenerate box with itself is exactly 1.
IouSelfIsOne ==
    (Returned /\ NonDegenerate(box1) /\ box2 = box1) => iou = One

IouSelfIsOneWitness ==
    /\ Returned /\ NonDegenerate(box1) /\ box2 = box1
    /\ box1 = <<1, 0, 2, 3>>
    /\ iou = One

\* The y-ranges or the x-ranges of a and b are disjoint or touch at an edge.
NoOverlap(a, b) ==
    \/ a[3] <= b[1] \/ b[3] <= a[1]
    \/ a[4] <= b[2] \/ b[4] <= a[2]

\* C3: valid boxes that do not overlap have IoU 0.
IouDisjointIsZero ==
    (Returned /\ ValidBox(box1) /\ ValidBox(box2) /\ NoOverlap(box1, box2))
        => iou = Zero

IouDisjointIsZeroWitness ==
    /\ Returned
    /\ NonDegenerate(box1) /\ NonDegenerate(box2)
    /\ box1[3] < box2[1]
    /\ box1[2] < box2[4] /\ box2[2] < box1[4]
    /\ iou = Zero

\* C4: calculate_iou(a, b) = calculate_iou(b, a) for every pair of boxes.
IouSymmetric == Returned => iou = iou_rev

IouSymmetricWitness ==
    /\ Returned
    /\ box1 # box2
    /\ ValidBox(box1) /\ ValidBox(box2)
    /\ iou = iou_rev
    /\ 0 < iou[1] /\ iou[1] < iou[2]

\* C5: with a zero-area box as either argument and a valid box as the other,
\* calculate_iou returns 0 and does not raise, also when the union is 0.
IouZeroAreaIsZero ==
    (Returned /\ ( (ValidBox(box1) /\ ZeroArea(box2))
                   \/ (ValidBox(box2) /\ ZeroArea(box1)) ))
        => (iou = Zero /\ iou_rev = Zero)

IouZeroAreaIsZeroWitness ==
    /\ Returned
    /\ ValidBox(box1) /\ ValidBox(box2)
    /\ ZeroArea(box1) /\ ZeroArea(box2)
    /\ box_area(box1) + box_area(box2) = 0
    /\ iou = Zero /\ iou_rev = Zero

\* intersection and union as the claim writes them
ClaimIntersection(a, b) ==
    max(0, min(a[3], b[3]) - max(a[1], b[1]))
        * max(0, min(a[4], b[4]) - max(a[2], b[2]))

ClaimUnion(a, b) ==
    (a[3] - a[1]) * (a[4] - a[2]) + (b[3] - b[1]) * (b[4] - b[2])
        - ClaimIntersection(a, b)

\* C6: for valid boxes calculate_iou returns intersection / union (0 when
\* the union is 0); [0,0,10,10] and [5,5,15,15] give 25, 175 and 25/175.
IouIsIntersectionOverUnion ==
    (Returned /\ ValidBox(box1) /\ ValidBox(box2))
        => /\ ClaimUnion(box1, box2) = 0 => iou = Zero
           /\ ClaimUnion(box1, box2) # 0 =>
                /\ iou[2] > 0
                /\ iou[1] * ClaimUnion(box1, box2)
                      = ClaimIntersection(box1, box2) * iou[2]
           /\ (box1 = ExampleBox1 /\ box2 = ExampleBox2) =>
                /\ ClaimIntersection(box1, box2) = 25
                /\ ClaimUnion(box1, box2) = 175
                /\ iou[1] * 175 = 25 * iou[2]

IouIsIntersectionOverUnionWitness ==
    /\ Returned
    /\ box1 = ExampleBox1 /\ box2 = ExampleBox2
    /\ iou = <<1, 7>>

(***************************************************************************)
(* Properties of evaluate_model_performance, checked under Spec.           *)
(***************************************************************************)
Default == <<1, 2>>

\* A step of the detection loop that enumerates a detection; the
\* detection is detection' and the counters before it are unprimed.
DetectionStep == pc = "detections" /\ (i' = i + 1 \/ pc' = "fault")

Counted == true_positives + false_positives

\* C7: one example, one non-degenerate ground-truth box, one detection with
\* the same ordinates and label and score 0.9, default thresholds: the call
\* ends with TP = 1, FP = 0, FN = 0, precision = 1 and recall = 1.
PerfectMatchIsTruePositive ==
    ( /\ pc = "done"
      /\ taken = 1
      /\ iou_threshold = Default
      /\ Len(gt_boxes) = 1
      /\ NonDegenerate(gt_boxes[1])
      /\ i = 1
      /\ detection = <<gt_boxes[1], <<9, 10>>, gt_labels[1]>> )
        => /\ true_positives = 1
           /\ false_positives = 0
           /\ false_negatives = 0
           /\ precision = One
           /\ recall = One

\* The confidence thresholds a caller may want the evaluator to apply.
ConfidenceThresholds == {<<1, 2>>, <<3, 5>>}

\* The filter of the detection loop, for a confidence threshold c.
FiltersAt(c) ==
    DetectionStep =>
        /\ Lt(detection'[2], c) =>
              UNCHANGED <<true_positives, false_positives, false_negatives,
                          gt_index>>
        /\ ~Lt(detection'[2], c) =>
              /\ Counted' = Counted + 1
              /\ false_negatives' = false_negatives

\* C8 as stated: the confidence threshold is an input of the evaluator
\* (default 0.5); detections below it are discarded before matching and
\* change no counter, detections at or above it are matched and counted.
ConfidenceInputFilters ==
    [][\A c \in ConfidenceThresholds : FiltersAt(c)]_vars

\* C8 as amended: the confidence threshold is the fixed value 0.5;
\* detections with score < 0.5 are discarded before matching and change no
\* counter, detections with score >= 0.5 are matched and counted.
ConfidenceLiteralFilters == [][FiltersAt(<<1, 2>>)]_vars

ConfidenceLiteralFiltersWitness ==
    /\ pc = "detections"
    /\ taken = 1
    /\ i = 2
    /\ detection # <<>>
    /\ detection[2] = <<2, 5>>
    /\ Counted = 1

\* The largest IoU of a box of boxes against pb, 0 when there is none.
ClaimBestIou(boxes, pb) ==
    LET S == {Zero} \cup {calculate_iou(boxes[j], pb) : j \in 1..Len(boxes)}
    IN  CHOOSE v \in S : \A w \in S : ~Gt(w, v)

FalseNegativesPerImage ==
    [][ (pc = "detections" /\ pc' = "loop") =>
          false_negatives' = false_negatives + Len(gt_boxes)
                                - (true_positives - tp_at_take)
    ]_vars

\* C11: in the report precision is TP / (TP + FP) when TP + FP is not 0 and
\* 0 otherwise, recall is TP / (TP + FN) when TP + FN is not 0 and 0
\* otherwise, and neither computation raises.
ReportIsRatioOrZero ==
    pc = "done" =>
        /\ precision # ZeroDivisionError
        /\ recall # ZeroDivisionError
        /\ true_positives + false_positives = 0 => precision = Zero
        /\ true_positives + false_positives # 0 =>
              /\ precision[2] > 0
              /\ precision[1] * (true_positives + false_positives)
                    = true_positives * precision[2]
        /\ true_positives + false_negatives = 0 => recall = Zero
        /\ true_positives + false_negatives # 0 =>
              /\ recall[2] > 0
              /\ recall[1] * (true_positives + false_negatives)
                    = true_positives * recall[2]

\* The number of examples the claim says a run processes.
ClaimProcessed == IF num_samples <= dataset_len THEN num_samples ELSE dataset_len

\* C12: every evaluation run over a finite dataset terminates; on return it
\* has processed exactly min(num_samples, number of examples) examples, one
\* at a time in the order the dataset yields them, and the report is produced
\* only after the last of them.
EvaluationTerminates ==
    /\ <>(pc = "done")
    /\ [](pc = "done" => taken = ClaimProcessed)
    /\ [][taken' # taken =>
            pc = "loop" /\ taken' = taken + 1 /\ taken' <= dataset_len]_vars
    /\ [][pc' = "done" /\ pc # "done" =>
            pc = "loop" /\ taken = ClaimProcessed /\ taken' = taken]_vars

EvaluationTerminatesWitness ==
    /\ pc = "done"
    /\ dataset_len = 1
    /\ num_samples = 2
    /\ taken = 1

KnownNames == {class_names[n] : n \in 1..Len(class_names)}

\* C13: in both labelled outputs a detection above the confidence threshold
\* whose class id is not below len(class_names) never causes a failure and is
\* never shown under the name of a known class, whatever detections came
\* before it and also when it is the first one.
UnknownClassNeverNamed ==
    /\ pc # "fault"
    /\ \A n \in 1..Len(output) :
          output[n][1] >= Len(class_names) => output[n][2] \notin KnownNames

\* The 1-based position of the first box of boxes whose IoU with pb is v.
ClaimFirstAt(boxes, pb, v) ==
    CHOOSE j \in 1..Len(boxes) :
        /\ calculate_iou(boxes[j], pb) = v
        /\ \A k \in 1..(j - 1) : calculate_iou(boxes[k], pb) # v

\* C14: matching is per detection and unconstrained: whatever was matched
\* before, the label compared is that of the ground-truth box of the same
\* example with the highest IoU, the lowest-indexed one on ties, so every
\* detection that overlaps a box above the threshold with its label adds 1 to
\* true_positives (k such detections on one box add k).
UnconstrainedMatching ==
    [][ (DetectionStep /\ ~Lt(detection'[2], <<1, 2>>)) =>
          LET pb == <<detection'[1][2], detection'[1][1],
                      detection'[1][4], detection'[1][3]>>
              b == ClaimBestIou(gt_boxes, pb)
          IN  Gt(b, iou_threshold) =>
                LET first == ClaimFirstAt(gt_boxes, pb, b)
                IN  /\ gt_index' = <<first - 1>>
                    /\ detection'[3] = gt_labels[first] =>
                          /\ true_positives' = true_positives + 1
                          /\ false_positives' = false_positives
                    /\ detection'[3] # gt_labels[first] =>
                          /\ true_positives' = true_positives
                          /\ false_positives' = false_positives + 1
    ]_vars

UnconstrainedMatchingWitness ==
    /\ pc = "detections"
    /\ gt_boxes = <<BoxA, BoxA>>
    /\ gt_labels = <<1, 2>>
    /\ i = 2
    /\ gt_index = <<0>>
    /\ true_positives = 2
    /\ false_positives = 0

\* C15: in every state of an evaluation run false_negatives is at least 0,
\* and so the reported recall is at most 1.
FalseNegativesNonNegative ==
    /\ false_negatives >= 0
    /\ pc = "done" => ~Gt(recall, One)

\* C16: the final true_positives, false_positives, false_negatives,
\* precision and recall do not depend on the order in which the examples are
\* processed: every permutation of the same examples gives the same five values.
OrderIndependent ==
    pc = "evaluated" => report = report_reordered

\* C17: whenever the evaluation reads gt_index to compare labels (the best
\* IoU of the detection passes the test against iou_threshold), gt_index was
\* assigned by the scan of the current example's ground-truth boxes for this
\* very detection: the read never raises and never sees a value left by an
\* earlier detection or example.
GtIndexFreshWhenRead ==
    [][ (DetectionStep /\ ~below_confidence(detection'[2])) =>
          LET pb == convert_box(detection'[1])
              b == ClaimBestIou(gt_boxes, pb)
          IN  exceeds_threshold(b, iou_threshold) =>
                /\ pc' # "fault"
                /\ Gt(b, Zero)
                /\ \E j \in 1..Len(gt_boxes) :
                      /\ gt_index' = <<j - 1>>
                      /\ calculate_iou(gt_boxes[j], pb) = b
                      /\ Gt(calculate_iou(gt_boxes[j], pb), Zero)
    ]_vars

GtIndexFreshWhenReadWitness ==
    /\ pc = "detections"
    /\ taken = 2
    /\ tp_at_take = 1
    /\ iou_threshold = Zero
    /\ gt_boxes = <<BoxA>>
    /\ i = 1
    /\ detection = <<BoxAt, <<1, 2>>, 1>>
    /\ gt_index = <<0>>
    /\ true_positives = 2

====
